---- MODULE Spec2Model ----
(***************************************************************************)
(* Model of the stock-application repository: the DCF valuation function   *)
(* dcf_model and the weight predicate validate_weights of stock_app.py,    *)
(* the sqlite-backed portfolio store of database.py, and the Portfolio     *)
(* Manager part of stock_app.main (one Streamlit script run per action).   *)
(*                                                                         *)
(* Real numbers are modelled exactly: money and rates of dcf_model are     *)
(* normalised fractions <<numerator, denominator>>; portfolio weights are  *)
(* integers counting thousandths of a percent.  Floating-point rounding is *)
(* therefore not part of the model.                                        *)
(***************************************************************************)
EXTENDS Integers, Sequences, FiniteSets, TLC

VARIABLES args, result, weights, valid, store, last, run

vars == <<args, result, weights, valid, store, last, run>>

----------------------------------------------------------------------------
(* Exact rational arithmetic standing for Python's float operators.        *)

Abs(x) == IF x < 0 THEN -x ELSE x

RECURSIVE GCD(_, _)
GCD(a, b) == IF b = 0 THEN a ELSE GCD(b, a % b)

Norm(n, d) ==
  LET g == GCD(Abs(n), Abs(d))
      s == IF d < 0 THEN -1 ELSE 1
  IN  <<(s * n) \div g, (s * d) \div g>>

Zero == <<0, 1>>
One  == <<1, 1>>
FromInt(i) == <<i, 1>>

RAdd(p, q) ==
  LET g  == GCD(p[2], q[2])
      mp == q[2] \div g
      mq == p[2] \div g
  IN  Norm(p[1] * mp + q[1] * mq, p[2] * mp)

RNeg(p) == <<-p[1], p[2]>>

RSub(p, q) == RAdd(p, RNeg(q))

RMul(p, q) ==
  LET g1 == GCD(Abs(p[1]), q[2])
      g2 == GCD(Abs(q[1]), p[2])
  IN  Norm((p[1] \div g1) * (q[1] \div g2), (p[2] \div g2) * (q[2] \div g1))

RInv(q) == IF q[1] < 0 THEN <<-q[2], -q[1]>> ELSE <<q[2], q[1]>>

RDiv(p, q) == RMul(p, RInv(q))

RECURSIVE RPow(_, _)
RPow(p, k) == IF k = 0 THEN One ELSE RMul(p, RPow(p, k - 1))

\* p < q, comparing the integer parts first so that no product is large
RLess(p, q) ==
  LET fp == p[1] \div p[2]
      fq == q[1] \div q[2]
  IN  IF fp # fq THEN fp < fq
      ELSE (p[1] % p[2]) * q[2] < (q[1] % q[2]) * p[2]

\* x/100 for a rate x given in percent
Pct(x) == Norm(x, 100)

----------------------------------------------------------------------------
(* dcf_model: stock_app.py lines 44-80                                     *)

MaxYears == 3

\* the values the arguments are drawn from (percentages for the rates)
GrowthRates == {-200, -100, -50, 0, 10, 50, 100}
TerminalGrowthRates == {-200, -100, -90, -50, 0, 10, 50, 100}
DiscountRates == {-200, -100, -50, 0, 10, 50, 100, 200}
CashFlows == {-50, 0, 100}
Years == 0 .. MaxYears

NoValue == <<0, 0>>

MsgTerminalGrowth == "Terminal growth must be less than discount rate"
MsgNegativeFCF == "Negative final FCF - terminal value calculation invalid"

Raise(kind, msg, cash_flows) ==
  [kind |-> kind, msg |-> msg, total_value |-> NoValue, cash_flows |-> cash_flows]

Return(total_value, cash_flows) ==
  [kind |-> "return", msg |-> "", total_value |-> total_value,
   cash_flows |-> cash_flows]

NotCalled == [kind |-> "not called", msg |-> "", total_value |-> NoValue,
              cash_flows |-> <<>>]

\* sum(cash_flows)
RECURSIVE sum_cash_flows(_)
sum_cash_flows(s) ==
  IF s = <<>> THEN Zero ELSE RAdd(sum_cash_flows(SubSeq(s, 1, Len(s) - 1)), s[Len(s)])

\* terminal_phase with the operands of the Gordon-growth denominator swapped
terminal_phase_swapped(current_fcf, cash_flows, terminal_growth, discount_rate, years) ==
  LET final_year_fcf == current_fcf
      denom == RSub(Pct(terminal_growth), Pct(discount_rate))
      pw == RPow(RAdd(One, Pct(discount_rate)), years)
  IN  IF RLess(final_year_fcf, Zero)
      THEN Raise("ValueError", MsgNegativeFCF, cash_flows)
      ELSE IF denom = Zero \/ pw = Zero
      THEN Raise("ZeroDivisionError", "float division by zero", cash_flows)
      ELSE Return(RAdd(sum_cash_flows(cash_flows),
                       RDiv(RDiv(RMul(final_year_fcf,
                                      RAdd(One, Pct(terminal_growth))), denom), pw)),
                  cash_flows)

\* the terminal-value part, lines 58-80, entered with the loop's results
terminal_phase(current_fcf, cash_flows, terminal_growth, discount_rate, years) ==
  LET final_year_fcf == current_fcf
      denom == RSub(Pct(discount_rate), Pct(terminal_growth))
      pw == RPow(RAdd(One, Pct(discount_rate)), years)
  IN  IF RLess(final_year_fcf, Zero)
      THEN Raise("ValueError", MsgNegativeFCF, cash_flows)
      ELSE IF denom = Zero
      THEN Raise("ZeroDivisionError", "float division by zero", cash_flows)
      ELSE LET terminal_value ==
                 RDiv(RMul(final_year_fcf, RAdd(One, Pct(terminal_growth))), denom)
           IN  IF pw = Zero
               THEN Raise("ZeroDivisionError", "float division by zero", cash_flows)
               ELSE Return(RAdd(sum_cash_flows(cash_flows), RDiv(terminal_value, pw)),
                           cash_flows)

\* forecast_loop discounting every year by the full horizon `years`
RECURSIVE forecast_loop_flat_discount(_, _, _, _, _, _, _)
forecast_loop_flat_discount(current_fcf, cash_flows, year, growth, terminal_growth, discount_rate, years) ==
  IF year > years
  THEN terminal_phase(current_fcf, cash_flows, terminal_growth, discount_rate, years)
  ELSE LET fcf1 == RMul(current_fcf, RAdd(One, Pct(growth)))
           pw == RPow(RAdd(One, Pct(discount_rate)), years)
       IN  IF pw = Zero
           THEN Raise("ZeroDivisionError", "float division by zero", cash_flows)
           ELSE forecast_loop_flat_discount(fcf1, Append(cash_flows, RDiv(fcf1, pw)),
                                            year + 1, growth, terminal_growth,
                                            discount_rate, years)

\* the explicit forecast loop, lines 53-56, from iteration `year` on
RECURSIVE forecast_loop(_, _, _, _, _, _, _)
forecast_loop(current_fcf, cash_flows, year, growth, terminal_growth, discount_rate, years) ==
  IF year > years
  THEN terminal_phase(current_fcf, cash_flows, terminal_growth, discount_rate, years)
  ELSE LET fcf1 == RMul(current_fcf, RAdd(One, Pct(growth)))
           pw == RPow(RAdd(One, Pct(discount_rate)), year)
       IN  IF pw = Zero
           THEN Raise("ZeroDivisionError", "float division by zero", cash_flows)
           ELSE forecast_loop(fcf1, Append(cash_flows, RDiv(fcf1, pw)), year + 1,
                              growth, terminal_growth, discount_rate, years)

\* dcf_model rejecting only terminal_growth > discount_rate
dcf_model_strict_check(fcf, growth, terminal_growth, discount_rate, years) ==
  IF terminal_growth > discount_rate
  THEN Raise("ValueError", MsgTerminalGrowth, <<>>)
  ELSE forecast_loop(FromInt(fcf), <<>>, 1, growth, terminal_growth,
                     discount_rate, years)

dcf_model(fcf, growth, terminal_growth, discount_rate, years) ==
  IF terminal_growth >= discount_rate
  THEN Raise("ValueError", MsgTerminalGrowth, <<>>)
  ELSE forecast_loop(FromInt(fcf), <<>>, 1, growth, terminal_growth,
                     discount_rate, years)

ArgSpace ==
  [fcf : CashFlows, growth : GrowthRates, terminal_growth : TerminalGrowthRates,
   discount_rate : DiscountRates, years : Years]

NoArgs == [fcf |-> 0, growth |-> 0, terminal_growth |-> 0, discount_rate |-> 0,
           years |-> 0]

----------------------------------------------------------------------------
(* validate_weights: stock_app.py lines 82-84.  A weight is an integer     *)
(* number of thousandths of a percent: 33.33 is 33330.                     *)

Hundred == 100000
Tolerance == 10

MaxWeights == 3

WeightValues == {-1000, 0, 33330, 33340, 40000, 49995, 50000, 99990, 99991, 100009, 100010}

\* sum(weights)
RECURSIVE sum_weights(_)
sum_weights(s) == IF s = <<>> THEN 0 ELSE s[1] + sum_weights(Tail(s))

\* validate_weights accepting a difference of exactly 0.01
validate_weights_inclusive(w) == Abs(sum_weights(w) - Hundred) <= Tolerance

validate_weights(w) == Abs(sum_weights(w) - Hundred) < Tolerance

PyBool(b) == IF b THEN "True" ELSE "False"

----------------------------------------------------------------------------
(* database.py: the portfolios table of portfolio.db.  A row is            *)
(* (id, name, stocks, weights), stocks and weights being JSON text.        *)

MaxId == 3

json_dumps(x) == [json |-> x]
json_loads(t) == t.json

Row(id, name, stocks, w) ==
  [id |-> id, name |-> name, stocks |-> json_dumps(stocks), weights |-> json_dumps(w)]

Ids(st) == {r.id : r \in st}
Names(st) == {r.name : r \in st}

SetMax(S) == CHOOSE x \in S : \A y \in S : y <= x
SetMin(S) == CHOOSE x \in S : \A y \in S : x <= y

\* the rowid sqlite gives an INTEGER PRIMARY KEY column left unset
NextId(st) == IF st = {} THEN 1 ELSE SetMax(Ids(st)) + 1

\* SELECT * FROM portfolios: the rows in rowid order
RECURSIVE fetchall(_)
fetchall(st) ==
  IF st = {} THEN <<>>
  ELSE LET r == CHOOSE x \in st : x.id = SetMin(Ids(st))
       IN  <<r>> \o fetchall(st \ {r})

MsgNameExists == "Portfolio name already exists"

\* save_portfolio inserting without the UNIQUE constraint on name
save_portfolio_no_unique(st, name, stocks, w) ==
  [store |-> st \cup {Row(NextId(st), name, stocks, w)}, raised |-> "", msg |-> ""]

\* save_portfolio: the INSERT, with the UNIQUE(name) violation turned into ValueError
save_portfolio(st, name, stocks, w) ==
  IF name \in Names(st)
  THEN [store |-> st, raised |-> "ValueError", msg |-> MsgNameExists]
  ELSE [store |-> st \cup {Row(NextId(st), name, stocks, w)}, raised |-> "", msg |-> ""]

load_portfolios(st) == fetchall(st)

delete_portfolio(st, portfolio_id) == {r \in st : r.id # portfolio_id}

\* CREATE TABLE IF NOT EXISTS: the rows of an existing table are kept
init_db(st) == st

DbNames == {"", "A", "B"}
DbPayloads ==
  { <<<<>>, <<>>>>, <<<<"NFLX">>, <<100000>>>>, <<<<"NFLX", "AMZN">>, <<50000, 40000>>>> }

NoCall == [op |-> "", name |-> "", id |-> 0, raised |-> "", msg |-> "", returned |-> <<>>]

----------------------------------------------------------------------------
(* stock_app.main, lines 89-201: one Streamlit script run, as far as the   *)
(* Portfolio Manager is concerned.  The DCF and Predictions tabs catch     *)
(* their own exceptions and touch neither the store nor these widgets.     *)

\* the names stock_app.py binds at module level, lines 4-20
StockAppImports ==
  {"st", "warnings", "yf", "pd", "np", "px", "requests", "json", "BeautifulSoup",
   "datetime", "get_forecast", "database", "time"}

MsgNotFound == "Company not found! Try these examples:"
MsgSaved == "Portfolio saved!"
MsgExistsUI == "Portfolio name already exists!"
MsgWeights == "Weights must sum to 100%"
MsgNoPortfolios == "No portfolios found!"

\* what `except sqlite3.IntegrityError:` (line 176) does with an exception of
\* class `raised` coming out of the try block
except_clause(raised) ==
  IF "sqlite3" \notin StockAppImports THEN "NameError"
  ELSE IF raised = "IntegrityError" THEN "caught"
  ELSE raised

Outcome(st, calls, msgs, exc) ==
  [store |-> st, db_calls |-> calls, messages |-> msgs, exception |-> exc]

\* the save handler saving without the weight check of line 172
save_handler_unchecked(st, pressed, name, stocks, w) ==
  IF ~(pressed = "save" /\ name # "") THEN Outcome(st, <<>>, <<>>, "")
  ELSE LET r == save_portfolio(st, name, stocks, w)
       IN  IF r.raised = ""
           THEN Outcome(r.store, <<"save_portfolio">>, <<MsgSaved>>, "")
           ELSE Outcome(r.store, <<"save_portfolio">>, <<>>, except_clause(r.raised))

\* lines 171-179
save_handler(st, pressed, name, stocks, w) ==
  IF ~(pressed = "save" /\ name # "") THEN Outcome(st, <<>>, <<>>, "")
  ELSE IF Abs(sum_weights(w) - Hundred) < Tolerance
  THEN LET r == save_portfolio(st, name, stocks, w)
       IN  IF r.raised = ""
           THEN Outcome(r.store, <<"save_portfolio">>, <<MsgSaved>>, "")
           ELSE IF except_clause(r.raised) = "caught"
           THEN Outcome(r.store, <<"save_portfolio">>, <<MsgExistsUI>>, "")
           ELSE Outcome(r.store, <<"save_portfolio">>, <<>>, except_clause(r.raised))
  ELSE Outcome(st, <<>>, <<MsgWeights>>, "")

\* lines 182-201: the listing, and the Delete button of the row `delete_id`
view_section(st, pressed, delete_id) ==
  LET portfolios == load_portfolios(st)
      warn == IF portfolios = <<>> THEN <<MsgNoPortfolios>> ELSE <<>>
  IN  IF pressed = "delete" /\ delete_id \in Ids(st)
      THEN [store |-> delete_portfolio(st, delete_id), viewed |-> portfolios,
            db_calls |-> <<"load_portfolios", "delete_portfolio">>,
            messages |-> warn, rerun |-> TRUE]
      ELSE [store |-> st, viewed |-> portfolios, db_calls |-> <<"load_portfolios">>,
            messages |-> warn, rerun |-> FALSE]

ScriptRun(st, calls, msgs, exc, rendered_save, reached_view, viewed, rerun) ==
  [store |-> st, db_calls |-> calls, messages |-> msgs, exception |-> exc,
   rendered_save |-> rendered_save, reached_view |-> reached_view,
   viewed |-> viewed, rerun |-> rerun]

\* main(): one run of the script with the given widget state
main(st, pressed, name, stocks, w, delete_id, ticker_found) ==
  LET st0 == init_db(st)
  IN  IF ~ticker_found
      THEN ScriptRun(st0, <<"init_db">>, <<MsgNotFound>>, "", FALSE, FALSE, <<>>, FALSE)
      ELSE LET s == save_handler(st0, pressed, name, stocks, w)
           IN  IF s.exception # ""
               THEN ScriptRun(s.store, <<"init_db">> \o s.db_calls, s.messages,
                              s.exception, TRUE, FALSE, <<>>, FALSE)
               ELSE LET v == view_section(s.store, pressed, delete_id)
                    IN  ScriptRun(v.store, <<"init_db">> \o s.db_calls \o v.db_calls,
                                  s.messages \o v.messages, "", TRUE, TRUE,
                                  v.viewed, v.rerun)

\* the widget values a user can enter
UiNames == {"", "A", "B"}
UiWeightValues == {49995, 50000, 100000}
UiForms ==
  {<<<<>>, <<>>>>}
    \cup {<<<<"NFLX">>, <<w1>>>> : w1 \in UiWeightValues}
    \cup {<<<<"NFLX", "AMZN">>, <<w1, w2>>>> : w1 \in UiWeightValues, w2 \in UiWeightValues}

RunRecord(pressed, name, stocks, w, delete_id, ticker_found, r) ==
  [pressed |-> pressed, name |-> name, stocks |-> stocks, weights |-> w,
   delete_id |-> delete_id, ticker_found |-> ticker_found,
   db_calls |-> r.db_calls, messages |-> r.messages, exception |-> r.exception,
   rendered_save |-> r.rendered_save, reached_view |-> r.reached_view,
   viewed |-> r.viewed]

NoRun ==
  [pressed |-> "", name |-> "", stocks |-> <<>>, weights |-> <<>>, delete_id |-> 0,
   ticker_found |-> FALSE, db_calls |-> <<>>, messages |-> <<>>, exception |-> "",
   rendered_save |-> FALSE, reached_view |-> FALSE, viewed |-> <<>>]

----------------------------------------------------------------------------
(* Specifications                                                          *)

InitDCF ==
  /\ args \in ArgSpace
  /\ result = NotCalled
  /\ weights = <<>>
  /\ valid = "not called"
  /\ store = {}
  /\ last = NoCall
  /\ run = NoRun

CallDcfModel ==
  /\ result = NotCalled
  /\ result' = dcf_model(args.fcf, args.growth, args.terminal_growth, args.discount_rate, args.years)
  /\ UNCHANGED <<args, weights, valid, store, last, run>>

NextDCF == CallDcfModel

SpecDCF == InitDCF /\ [][NextDCF]_vars

RECURSIVE SeqsUpTo(_, _)
SeqsUpTo(S, n) ==
  IF n = 0 THEN {<<>>}
  ELSE LET shorter == SeqsUpTo(S, n - 1)
       IN  shorter \cup {Append(q, x) : q \in shorter, x \in S}

InitWeights ==
  /\ weights \in SeqsUpTo(WeightValues, MaxWeights)
  /\ valid = "not called"
  /\ args = NoArgs
  /\ result = NotCalled
  /\ store = {}
  /\ last = NoCall
  /\ run = NoRun

CallValidateWeights ==
  /\ valid = "not called"
  /\ valid' = PyBool(validate_weights(weights))
  /\ UNCHANGED <<args, result, weights, store, last, run>>

NextWeights == CallValidateWeights

SpecWeights == InitWeights /\ [][NextWeights]_vars

\* portfolio.db right after the first init_db
InitDB ==
  /\ store = {}
  /\ last = NoCall
  /\ args = NoArgs
  /\ result = NotCalled
  /\ weights = <<>>
  /\ valid = "not called"
  /\ run = NoRun

CallInitDb ==
  /\ store' = init_db(store)
  /\ last' = [NoCall EXCEPT !.op = "init_db"]
  /\ UNCHANGED <<args, result, weights, valid, run>>

CallSavePortfolio ==
  \E name \in DbNames, p \in DbPayloads :
    LET r == save_portfolio(store, name, p[1], p[2])
    IN  /\ Ids(r.store) \subseteq 1 .. MaxId
        /\ store' = r.store
        /\ last' = [NoCall EXCEPT !.op = "save_portfolio", !.name = name,
                                  !.raised = r.raised, !.msg = r.msg]
        /\ UNCHANGED <<args, result, weights, valid, run>>

CallLoadPortfolios ==
  /\ last' = [NoCall EXCEPT !.op = "load_portfolios", !.returned = load_portfolios(store)]
  /\ UNCHANGED <<store, args, result, weights, valid, run>>

CallDeletePortfolio ==
  \E id \in 1 .. MaxId :
    /\ store' = delete_portfolio(store, id)
    /\ last' = [NoCall EXCEPT !.op = "delete_portfolio", !.id = id]
    /\ UNCHANGED <<args, result, weights, valid, run>>

NextDB == CallInitDb \/ CallSavePortfolio \/ CallLoadPortfolios \/ CallDeletePortfolio

SpecDB == InitDB /\ [][NextDB]_vars

\* the application before its first script run, on a fresh portfolio.db
Init ==
  /\ store = {}
  /\ run = NoRun
  /\ last = NoCall
  /\ args = NoArgs
  /\ result = NotCalled
  /\ weights = <<>>
  /\ valid = "not called"

\* a script run with no button pressed: the page is opened, or a widget changed
RunPlain ==
  \E ticker_found \in BOOLEAN :
    LET r == main(store, "none", "", <<>>, <<>>, 0, ticker_found)
    IN  /\ store' = r.store
        /\ run' = RunRecord("none", "", <<>>, <<>>, 0, ticker_found, r)
        /\ UNCHANGED <<args, result, weights, valid, last>>

\* the run that follows a press of Save Portfolio
RunSave ==
  /\ run.rendered_save
  /\ \E name \in UiNames, f \in UiForms, ticker_found \in BOOLEAN :
       LET r == main(store, "save", name, f[1], f[2], 0, ticker_found)
       IN  /\ Ids(r.store) \subseteq 1 .. MaxId
           /\ store' = r.store
           /\ run' = RunRecord("save", name, f[1], f[2], 0, ticker_found, r)
           /\ UNCHANGED <<args, result, weights, valid, last>>

\* the run that follows a press of a listed portfolio's Delete button, with the
\* run st.experimental_rerun() starts when the row has been deleted
RunDelete ==
  /\ run.reached_view
  /\ \E i \in 1 .. Len(run.viewed), ticker_found \in BOOLEAN, ticker_again \in BOOLEAN :
       LET id == run.viewed[i].id
           r1 == main(store, "delete", "", <<>>, <<>>, id, ticker_found)
           r2 == main(r1.store, "none", "", <<>>, <<>>, 0, ticker_again)
           r  == IF r1.rerun THEN [r2 EXCEPT !.db_calls = r1.db_calls \o r2.db_calls]
                 ELSE r1
       IN  /\ store' = r.store
           /\ run' = RunRecord("delete", "", <<>>, <<>>, id, ticker_found, r)
           /\ UNCHANGED <<args, result, weights, valid, last>>

Next == RunPlain \/ RunSave \/ RunDelete

Spec == Init /\ [][Next]_vars

----------------------------------------------------------------------------
(* Properties of dcf_model                                                 *)

Called == result # NotCalled

\* the claim's final_year_fcf = fcf * (1 + growth/100)^years, in closed form
FinalYearFcf == RMul(FromInt(args.fcf), RPow(RAdd(One, Pct(args.growth)), args.years))

\* sum over t = 1..n of fcf*(1+growth/100)^t / (1+discount_rate/100)^t
RECURSIVE ExplicitSum(_, _, _, _)
ExplicitSum(fcf, growth, discount_rate, n) ==
  IF n = 0 THEN Zero
  ELSE RAdd(ExplicitSum(fcf, growth, discount_rate, n - 1),
            RDiv(RMul(FromInt(fcf), RPow(RAdd(One, Pct(growth)), n)),
                 RPow(RAdd(One, Pct(discount_rate)), n)))

ClosedForm(fcf, growth, terminal_growth, discount_rate, years) ==
  RAdd(ExplicitSum(fcf, growth, discount_rate, years),
       RDiv(RDiv(RMul(RMul(FromInt(fcf), RPow(RAdd(One, Pct(growth)), years)),
                      RAdd(One, Pct(terminal_growth))),
                 RSub(Pct(discount_rate), Pct(terminal_growth))),
            RPow(RAdd(One, Pct(discount_rate)), years)))

RaisedInvalidAssumptions ==
  /\ result.kind = "ValueError"
  /\ result.msg = MsgTerminalGrowth
  /\ result.total_value = NoValue

RaisedNegativeTerminalCashFlow ==
  /\ result.kind = "ValueError"
  /\ result.msg = MsgNegativeFCF
  /\ result.total_value = NoValue

\* C1: whenever terminal_growth >= discount_rate (equal or greater), whatever
\* fcf, growth and years are, the call raises the "Terminal growth must be less
\* than discount rate" failure, returns no total_value, and has projected no
\* cash flow when it does so.
C1_InvalidAssumptions ==
  (Called /\ args.terminal_growth >= args.discount_rate)
    => (RaisedInvalidAssumptions /\ result.cash_flows = <<>>)

\* the equal case, with inputs whose final-year cash flow would be negative
C1_Witness ==
  /\ Called
  /\ args.terminal_growth = args.discount_rate
  /\ args.fcf = -50 /\ args.growth = 10 /\ args.years = 2
  /\ RaisedInvalidAssumptions

\* C2: with terminal_growth < discount_rate, a negative final_year_fcf always
\* ends in the "terminal value calculation invalid" failure without a
\* total_value, and a non-negative one never does.
C2_NegativeTerminalCashFlow ==
  (Called /\ args.terminal_growth < args.discount_rate)
    => /\ RLess(FinalYearFcf, Zero) => RaisedNegativeTerminalCashFlow
       /\ ~RLess(FinalYearFcf, Zero) => ~RaisedNegativeTerminalCashFlow

\* C3: a returned total_value is the sum of the discounted yearly cash flows
\* (the same growth rate every year) plus the discounted Gordon-growth
\* terminal value; fcf=100, growth=0, terminal_growth=0, discount_rate=10,
\* years=1 returns 1000.
C3_TotalValue ==
  /\ (Called /\ result.kind = "return")
       => result.total_value =
            ClosedForm(args.fcf, args.growth, args.terminal_growth,
                       args.discount_rate, args.years)
  /\ (Called /\ args = [fcf |-> 100, growth |-> 0, terminal_growth |-> 0,
                        discount_rate |-> 10, years |-> 1])
       => (result.kind = "return" /\ result.total_value = <<1000, 1>>)

C3_Witness ==
  /\ Called
  /\ result.kind = "return"
  /\ args.years = 3 /\ args.growth = 50 /\ args.discount_rate = 10
  /\ args.terminal_growth = -50 /\ args.fcf = 100

\* the value dcf_model returns for the current inputs at discount rate d
AtRate(d) ==
  dcf_model(args.fcf, args.growth, args.terminal_growth, d, args.years)

\* C4 as stated: between any two discount rates at which the call succeeds, the
\* higher rate gives the strictly smaller total_value.
C4_Monotone_Original ==
  (Called /\ result.kind = "return")
    => \A d2 \in DiscountRates :
         (d2 > args.discount_rate /\ AtRate(d2).kind = "return")
           => RLess(AtRate(d2).total_value, result.total_value)

\* C4 amended: the same, for fcf > 0, growth > -100 and terminal_growth > -100
\* (every projected cash flow and the terminal cash flow are positive).
C4_Monotone ==
  (/\ Called /\ args.terminal_growth < args.discount_rate
   /\ args.fcf > 0 /\ args.growth > -100 /\ args.terminal_growth > -100)
    => /\ result.kind = "return"
       /\ \A d2 \in DiscountRates :
            d2 > args.discount_rate
              => /\ AtRate(d2).kind = "return"
                 /\ RLess(AtRate(d2).total_value, result.total_value)

C4_Witness ==
  /\ Called /\ result.kind = "return"
  /\ args.fcf = 100 /\ args.growth = 10 /\ args.terminal_growth = 0
  /\ args.discount_rate = 10 /\ args.years = 3
  /\ AtRate(50).kind = "return"
  /\ RLess(AtRate(50).total_value, result.total_value)

\* C5: with terminal_growth < discount_rate and a non-negative final-year cash
\* flow the call returns a (finite) total_value and ends in no failure.
C5_AlwaysReturns ==
  (/\ Called
   /\ args.terminal_growth < args.discount_rate
   /\ ~RLess(FinalYearFcf, Zero))
    => (result.kind = "return" /\ result.total_value # NoValue)

\* C6: fcf = -50 with a positive growth rate gives a negative final_year_fcf for
\* every horizon and the call raises the negative-terminal-cash-flow failure
\* (read with otherwise valid assumptions, terminal_growth < discount_rate).
C6_NegativeCompounding ==
  (/\ Called
   /\ args.fcf = -50 /\ args.growth > 0
   /\ args.terminal_growth < args.discount_rate)
    => (RLess(FinalYearFcf, Zero) /\ RaisedNegativeTerminalCashFlow)


----------------------------------------------------------------------------
(* Properties of validate_weights                                          *)

InSeq(x, s) == \E i \in 1 .. Len(s) : s[i] = x

\* the sum of a sequence of weights, added from the last one backwards
RECURSIVE Total(_)
Total(s) == IF s = <<>> THEN 0 ELSE Total(SubSeq(s, 1, Len(s) - 1)) + s[Len(s)]

\* |sum - 100.0| < 0.01, in thousandths of a percent
WithinTolerance(s) == 99990 < Total(s) /\ Total(s) < 100010

\* C7: validate_weights answers, for every sequence of weights, true exactly
\* when |sum(weights) - 100.0| < 0.01; [] gives false, [33.33, 33.33, 33.34]
\* gives true and [50.0, 40.0] gives false.
C7_ValidateWeights ==
  /\ valid \in {"not called", "True", "False"}
  /\ valid # "not called" => (valid = "True" <=> WithinTolerance(weights))
  /\ (valid # "not called" /\ weights = <<>>) => valid = "False"
  /\ (valid # "not called" /\ weights = <<33330, 33330, 33340>>) => valid = "True"
  /\ (valid # "not called" /\ weights = <<50000, 40000>>) => valid = "False"

C7_Witness == valid = "True" /\ weights = <<33330, 33330, 33340>>

----------------------------------------------------------------------------
(* Properties of the portfolio store                                       *)

UniqueNames == \A r1 \in store, r2 \in store : r1.name = r2.name => r1 = r2

\* a step that is a call of save_portfolio(last'.name, ...)
SaveStepOK ==
  last'.op = "save_portfolio"
    => IF \E r \in store : r.name = last'.name
       THEN /\ last'.raised = "ValueError"
            /\ last'.msg = "Portfolio name already exists"
            /\ store' = store
       ELSE /\ last'.raised = ""
            /\ store \subseteq store'
            /\ Cardinality(store') = Cardinality(store) + 1
            /\ \E r \in store' \ store : r.name = last'.name

\* C8: whatever save_portfolio, load_portfolios and delete_portfolio calls are
\* made, no two stored portfolios share a name; a save under a stored name
\* raises ValueError('Portfolio name already exists') and leaves the store as
\* it was, and a save under a name not stored adds exactly one record.
C8_UniqueNames == [][UniqueNames' /\ SaveStepOK]_vars

\* a name was saved, a second save of it rejected, next to another portfolio
C8_Witness ==
  /\ last.op = "save_portfolio" /\ last.raised = "ValueError" /\ last.name = "A"
  /\ Cardinality(store) = 2
  /\ \E r \in store : r.name = "A" /\ r.id = MaxId

----------------------------------------------------------------------------
(* Properties of the Portfolio Manager                                     *)

StoreValid ==
  \A r \in store : r.name # "" /\ WithinTolerance(json_loads(r.weights))

\* a Save press the handler must turn down
RejectedPress(r) ==
  /\ r.pressed = "save"
  /\ (r.name = "" \/ r.stocks = <<>> \/ ~WithinTolerance(r.weights))

\* C9 as stated: every stored portfolio has a non-empty name and weights within
\* 0.01 of 100; a Save press with an empty name, no stocks or failing weights
\* never calls save_portfolio, leaves the store unchanged, and reports
\* 'Weights must sum to 100%' whenever the name is non-empty.
C9_Original ==
  [][/\ StoreValid'
     /\ RejectedPress(run')
          => /\ store' = store
             /\ ~InSeq("save_portfolio", run'.db_calls)
             /\ run'.name # "" => InSeq("Weights must sum to 100%", run'.messages)]_vars

\* C9 amended: the same, the report being made whenever the name is non-empty
\* and the run got as far as the Portfolio Manager (the company name resolved
\* to a ticker; otherwise the script stops before it).
C9_ValidatedSaves ==
  [][/\ StoreValid'
     /\ RejectedPress(run')
          => /\ store' = store
             /\ ~InSeq("save_portfolio", run'.db_calls)
             /\ (run'.name # "" /\ run'.ticker_found)
                  => InSeq("Weights must sum to 100%", run'.messages)]_vars

\* a press with weights summing to 99.99 turned down next to a stored portfolio
C9_Witness ==
  /\ run.pressed = "save" /\ run.name = "B" /\ run.ticker_found
  /\ run.weights = <<49995, 49995>>
  /\ InSeq("Weights must sum to 100%", run.messages)
  /\ \E r \in store : r.name = "A" /\ json_loads(r.weights) = <<49995, 50000>>

\* C10: a Save press with valid weights and a name already stored is answered
\* with 'Portfolio name already exists!', not with 'Portfolio saved!', and the
\* run goes on to the View Portfolios section without an unhandled exception
\* (for a run that reaches the Portfolio Manager).
C10_DuplicateNameHandled ==
  [][(/\ run'.pressed = "save" /\ run'.ticker_found
      /\ run'.name # "" /\ WithinTolerance(run'.weights)
      /\ run'.name \in Names(store))
       => /\ InSeq("Portfolio name already exists!", run'.messages)
          /\ ~InSeq("Portfolio saved!", run'.messages)
          /\ run'.reached_view
          /\ run'.exception = ""]_vars

====
